---- MODULE Spec2Model ----
(***************************************************************************)
(* moplots: the orbital-series generation loop of src/moplots/cli.py.      *)
(*                                                                         *)
(* main() parses the arguments, validates them (validate_args) and runs    *)
(* GenerateMOPlotsCommand.execute, which for every orbital index of        *)
(* range(mo0, mo1 + 1) writes an orca_plot script into a fresh temporary   *)
(* file and runs orca_plot through the shell, once per requested spin.     *)
(*                                                                         *)
(* Texts (script files, log files) are sequences of one-character strings; *)
(* file names and command words are strings; an optional value (Python's   *)
(* None or a value) is the empty sequence or a one-element sequence.       *)
(***************************************************************************)
EXTENDS Integers, Sequences, FiniteSets, TLC

\* Largest orbital index the command line may name.
MaxMO == 2
\* Number of names the temporary-file allocator can draw from.
MaxNames == 4

----------------------------------------------------------------------------
(* Values of the command line and of the configuration *)

None == <<>>
Some(v) == <<v>>

\* -m0 / -m1: absent, or any integer (argparse type=int); -1 stands for the negatives.
MOValues == {None} \cup {Some(v) : v \in -1..MaxMO}

\* -s choices.
Spins == {"alpha", "beta", "both"}

\* -g: any integer (argparse type=int, default 80).
Grids == {7, 80}

\* class OutputType(Enum)
OutputType == [BINARY |-> 5, ASCII |-> 6, CUBE |-> 7]

\* Config.types_of_output = tuple(OutputType.__members__)
types_of_output == DOMAIN OutputType

\* infile as the caller supplies it: a path is its sequence of components.
InFiles == {<<"mol.gbw">>, <<"calc", "mol.gbw">>}

\* Config.orca_plot_path after __post_init__: shutil.which("orca_plot").
OrcaPlotPaths == {None, Some("/opt/orca/orca_plot")}

\* The names tempfile can allocate in the temporary directory.
TmpPool == <<"/tmp/tmpa", "/tmp/tmpb", "/tmp/tmpc", "/tmp/tmpd", "/tmp/tmpe",
             "/tmp/tmpf", "/tmp/tmpg", "/tmp/tmph">>
TmpNames == {TmpPool[k] : k \in 1..MaxNames}

----------------------------------------------------------------------------
(* Pure helpers *)

NL == "\n"

Digit == <<"0", "1", "2", "3", "4", "5", "6", "7", "8", "9">>

\* str(n) for n >= 0, as the f-string formats an int.
RECURSIVE NatStr(_)
NatStr(n) ==
    IF n < 10 THEN <<Digit[n + 1]>>
    ELSE NatStr(n \div 10) \o <<Digit[(n % 10) + 1]>>

\* str(n) for an int.
IntStr(n) == IF n < 0 THEN <<"-">> \o NatStr(-n) ELSE NatStr(n)

\* pathlib: Path(p).name is the final component; str(Path(p)) joins them.
PathName(p) == p[Len(p)]

RECURSIVE PathStr(_)
PathStr(p) ==
    IF Len(p) = 1 THEN p[1]
    ELSE PathStr(SubSeq(p, 1, Len(p) - 1)) \o "/" \o p[Len(p)]

\* range(a, b) that stops one element early.
RangeShort(a, b) == [k \in 1..(IF b - 1 > a THEN b - 1 - a ELSE 0) |-> a + k - 1]

\* range(a, b) as a sequence.
Range(a, b) == [k \in 1..(IF b > a THEN b - a ELSE 0) |-> a + k - 1]

\* Both blocks passing the alpha literal.
SpinBlockSame(chan) == <<"0", NL, "1", NL, "1", NL>>

\* The spin argument of _write_spin in the alpha and in the beta block.
SpinBlock(chan) ==
    IF chan = "alpha" THEN <<"0", NL, "1", NL, "1", NL>>
    ELSE <<"1", NL, "1", NL, "1", NL>>

\* _write_spin: the three strings it writes, in order.
WriteSpinPart(k, grid, mo_i, spin, output) ==
    CASE k = 1 -> <<"4", NL>> \o IntStr(grid) \o <<NL, "2", NL>>
                    \o IntStr(mo_i) \o <<NL, "3", NL>>
      [] k = 2 -> spin
      [] k = 3 -> <<"5", NL>> \o IntStr(OutputType[output])
                    \o <<NL, "1", "0", NL, "1", "1", NL>>

\* The command string of subprocess.run, as the words the shell splits it into.
CommandWords(orca, infile, filename) ==
    <<orca, PathName(infile), "-i", "<", filename, ">", filename \o ".log">>

\* /bin/sh on a simple command: "<" and ">" take the next word as the file of
\* standard input / standard output; a descriptor that is not redirected is
\* inherited from the parent; the other words are the argument vector.
RECURSIVE ShellParse(_, _)
ShellParse(words, acc) ==
    IF words = <<>> THEN acc
    ELSE IF words[1] = "<" /\ Len(words) >= 2
         THEN ShellParse(SubSeq(words, 3, Len(words)), [acc EXCEPT !.stdin = words[2]])
    ELSE IF words[1] = ">" /\ Len(words) >= 2
         THEN ShellParse(SubSeq(words, 3, Len(words)), [acc EXCEPT !.stdout = words[2]])
    ELSE IF words[1] = "2>" /\ Len(words) >= 2
         THEN ShellParse(SubSeq(words, 3, Len(words)), [acc EXCEPT !.stderr = words[2]])
    ELSE IF words[1] = "2>&1"
         THEN ShellParse(Tail(words), [acc EXCEPT !.stderr = acc.stdout])
    ELSE ShellParse(Tail(words), [acc EXCEPT !.argv = Append(acc.argv, words[1])])

Inherited == "<inherited>"

Shell(words) ==
    ShellParse(words, [argv |-> <<>>, stdin |-> Inherited,
                       stdout |-> Inherited, stderr |-> Inherited])

\* Python values of the theme code: a str, or a dict with one key (the JSON
\* document {"theme": ...}), each tagged with its type.
PyStr(v) == <<"str", v>>
PyDict(k, v) == <<"dict", k, v>>
IsStr(x) == x[1] = "str"
IsDict(x) == x[1] = "dict"

\* d[k] for a dict d that has the key k.
GetItem(d, k) == PyStr(d[3])

\* json.dump / json.load of such a dict: the file holds the tokens of the
\* JSON text {"<key>": "<value>"}.
JsonDump(d) == <<"{", d[2], ":", d[3], "}">>
JsonLoad(text) == PyDict(text[2], text[4])

\* SchemeDict.__annotations__: the six scheme names.
SchemeNames == {"dracula", "monokai", "material", "nord", "one_dark", "solarized_dark"}

\* scheme_dict of create_color_scheme: scheme name -> colour scheme class.
scheme_dict ==
    [dracula |-> "DraculaScheme", monokai |-> "MonokaiScheme",
     material |-> "MaterialScheme", nord |-> "NordScheme",
     one_dark |-> "OneDarkScheme", solarized_dark |-> "SolarizedDarkScheme"]

\* raise_scheme_error(scheme_name): "scheme_name not in SchemeDict.__annotations__"
\* hashes scheme_name, which raises TypeError for a dict; a str that is no
\* scheme name raises ValueError.
raise_scheme_error(scheme_name) ==
    IF IsDict(scheme_name) THEN "TypeError"
    ELSE IF scheme_name[2] \notin SchemeNames THEN "ValueError"
    ELSE "none"

\* -c / --color: choices=SchemeDict.__annotations__.
Colors == SchemeNames

----------------------------------------------------------------------------
(* State *)

VARIABLES
    args,        \* argparse.Namespace: mo0, mo1, grid, output, infile, spin
    config,      \* Config: orca_plot_path
    pc,          \* position of the single thread of control
    raised,      \* the exception that ended the run, or "none"
    mo_range,    \* execute: range(mo0, mo1 + 1)
    idx,         \* number of iterations of "for i in mo_range" begun
    chan,        \* which block of the loop body runs: "alpha" or "beta"
    progress,    \* task1 of the progress bar: completed, total
    temp,        \* the object NamedTemporaryFile returned: name, buf, closed
    disk,        \* the file system: file name -> content
    invoked,     \* the shell commands run so far, in order, each with its child
    config_file, \* the file Config.config_file names: absent, or its JSON document
    theme        \* the SetTheme object at hand: theme_name, color_scheme

\* The state of the colour-theme machinery, which the series loop never touches.
tvars == <<config_file, theme>>

vars == <<args, config, pc, raised, mo_range, idx, chan, progress, temp, disk,
          invoked, config_file, theme>>

\* The loop variable i.
i == mo_range[idx]

Init ==
    /\ args \in [mo0 : MOValues, mo1 : MOValues, grid : Grids,
                 output : types_of_output, infile : InFiles, spin : Spins]
    /\ config \in [orca_plot_path : OrcaPlotPaths]
    /\ pc = "validate_args"
    /\ raised = "none"
    /\ mo_range = <<>>
    /\ idx = 0
    /\ chan = "alpha"
    /\ progress = [completed |-> 0, total |-> 0]
    /\ temp = None
    /\ disk = <<>>
    /\ invoked = <<>>
    /\ config_file = Some(JsonDump(PyDict("theme", "dracula")))
    /\ theme = None

----------------------------------------------------------------------------
(* main *)

\* validate_args(args): the three checks, in order.
ValidateError ==
    IF args.mo0 = None \/ args.mo1 = None THEN "ValueError"
    ELSE IF args.mo0[1] < 0 \/ args.mo1[1] < 0 THEN "ValueError"
    ELSE IF config.orca_plot_path = None THEN "FileNotFoundError"
    ELSE "none"

\* main: args = parser.parse_args(); validate_args(args); ... execute_commands()
validate_args ==
    /\ pc = "validate_args"
    /\ IF ValidateError # "none"
       THEN /\ pc' = "raised"
            /\ raised' = ValidateError
       ELSE /\ pc' = "execute"
            /\ UNCHANGED raised
    /\ UNCHANGED <<args, config, mo_range, idx, chan, progress, temp, disk,
                   invoked>>
    /\ UNCHANGED tvars

----------------------------------------------------------------------------
(* GenerateMOPlotsCommand.execute *)

\* A progress update that is lost.
AdvanceNone(completed) == completed

\* progress.update(task1, advance=1)
Advance(completed) == completed + 1

\* The beta test placed before the alpha test.
FirstBlockBeta(spin) ==
    IF spin \in {"beta", "both"} THEN "beta"
    ELSE IF spin \in {"alpha", "both"} THEN "alpha"
    ELSE "for"

\* The block the loop body enters first, and the one after a block: the alpha
\* block runs if spin is "alpha" or "both", the beta block then runs if spin is
\* "beta" or "both"; "for" is the loop header.
FirstBlock(spin) ==
    IF spin \in {"alpha", "both"} THEN "alpha"
    ELSE IF spin \in {"beta", "both"} THEN "beta"
    ELSE "for"

NextBlock(block, spin) ==
    IF block = "alpha" /\ spin \in {"beta", "both"} THEN "beta" ELSE "for"

\* Control moves to block b ("alpha", "beta") or back to the loop header.
Goto(b) ==
    IF b = "for" THEN pc' = "for" /\ UNCHANGED chan
    ELSE pc' = "create" /\ chan' = b

\* mo_range = range(mo0, mo1 + 1); progress.add_task(total=len(mo_range))
execute ==
    /\ pc = "execute"
    /\ mo_range' = Range(args.mo0[1], args.mo1[1] + 1)
    /\ progress' = [completed |-> 0, total |-> Len(mo_range')]
    /\ idx' = 0
    /\ pc' = "for"
    /\ UNCHANGED <<args, config, raised, chan, temp, disk, invoked>>
    /\ UNCHANGED tvars

\* for i in mo_range: progress.update(task1, advance=1); enter the first block.
ForNext ==
    /\ pc = "for"
    /\ idx < Len(mo_range)
    /\ idx' = idx + 1
    /\ progress' = [progress EXCEPT !.completed = Advance(@)]
    /\ Goto(FirstBlock(args.spin))
    /\ UNCHANGED <<args, config, raised, mo_range, temp, disk, invoked>>
    /\ UNCHANGED tvars

\* The loop is exhausted: execute returns, and main after it.
ForEnd ==
    /\ pc = "for"
    /\ idx >= Len(mo_range)
    /\ pc' = "done"
    /\ UNCHANGED <<args, config, raised, mo_range, idx, chan, progress, temp,
                   disk, invoked>>
    /\ UNCHANGED tvars

\* An allocator that does not look at what exists.
AnyNames(d) == TmpNames

\* tempfile: the candidate names that do not exist yet (mkstemp opens with O_EXCL).
FreshNames(d) == TmpNames \ DOMAIN d

\* with tempfile.NamedTemporaryFile(mode="w", delete=False) as temp:
\* a new empty file under a name that did not exist, open for writing.
NamedTemporaryFile ==
    /\ pc = "create"
    /\ \E name \in FreshNames(disk) :
          /\ disk' = (name :> <<>>) @@ disk
          /\ temp' = Some([name |-> name, buf |-> <<>>, closed |-> FALSE])
    /\ pc' = "write1"
    /\ UNCHANGED <<args, config, raised, mo_range, idx, chan, progress, invoked>>
    /\ UNCHANGED tvars

\* NamedTemporaryFile raises (no name left to try, or the directory cannot be
\* written): no file, no handle; the exception leaves execute.
NamedTemporaryFileError ==
    /\ pc = "create"
    /\ pc' = "raised"
    /\ raised' = "OSError"
    /\ UNCHANGED <<args, config, mo_range, idx, chan, progress, temp, disk,
                   invoked>>
    /\ UNCHANGED tvars

\* temp.write(s): the text goes to the buffer of the file object.
TempWrite(k) ==
    temp' = Some([temp[1] EXCEPT !.buf =
                @ \o WriteSpinPart(k, args.grid, i, SpinBlock(chan), args.output)])

\* _write_spin, first, second and third temp.write.
WriteSpin1 ==
    /\ pc = "write1"
    /\ TempWrite(1)
    /\ pc' = "write2"
    /\ UNCHANGED <<args, config, raised, mo_range, idx, chan, progress, disk,
                   invoked>>
    /\ UNCHANGED tvars

WriteSpin2 ==
    /\ pc = "write2"
    /\ TempWrite(2)
    /\ pc' = "write3"
    /\ UNCHANGED <<args, config, raised, mo_range, idx, chan, progress, disk,
                   invoked>>
    /\ UNCHANGED tvars

\* The third write followed at once by subprocess.run, still inside the with block.
WriteSpin3Run ==
    /\ pc = "write3"
    /\ TempWrite(3)
    /\ pc' = "run"
    /\ UNCHANGED <<args, config, raised, mo_range, idx, chan, progress, disk,
                   invoked>>
    /\ UNCHANGED tvars

WriteSpin3 ==
    /\ pc = "write3"
    /\ TempWrite(3)
    /\ pc' = "close"
    /\ UNCHANGED <<args, config, raised, mo_range, idx, chan, progress, disk,
                   invoked>>
    /\ UNCHANGED tvars

\* End of the with block: the file object is closed, which flushes its buffer
\* to the file. delete=False: the file stays.
CloseTemp ==
    /\ pc = "close"
    /\ disk' = [disk EXCEPT ![temp[1].name] = @ \o temp[1].buf]
    /\ temp' = Some([temp[1] EXCEPT !.buf = <<>>, !.closed = TRUE])
    /\ pc' = "run"
    /\ UNCHANGED <<args, config, raised, mo_range, idx, chan, progress, invoked>>
    /\ UNCHANGED tvars

\* A failed flush that is swallowed: control goes on to subprocess.run.
CloseTempErrorIgnored ==
    /\ pc = "close"
    /\ \E n \in 0..(Len(temp[1].buf) - 1) :
          disk' = [disk EXCEPT ![temp[1].name] = @ \o SubSeq(temp[1].buf, 1, n)]
    /\ temp' = Some([temp[1] EXCEPT !.buf = <<>>, !.closed = TRUE])
    /\ pc' = "run"
    /\ UNCHANGED <<args, config, raised, mo_range, idx, chan, progress, invoked>>
    /\ UNCHANGED tvars

\* The flush fails (disk full, I/O error): the handle is released all the same,
\* the file holds a proper prefix of the script, the exception leaves execute.
CloseTempError ==
    /\ pc = "close"
    /\ \E n \in 0..(Len(temp[1].buf) - 1) :
          disk' = [disk EXCEPT ![temp[1].name] = @ \o SubSeq(temp[1].buf, 1, n)]
    /\ temp' = Some([temp[1] EXCEPT !.buf = <<>>, !.closed = TRUE])
    /\ pc' = "raised"
    /\ raised' = "OSError"
    /\ UNCHANGED <<args, config, mo_range, idx, chan, progress, invoked>>
    /\ UNCHANGED tvars

\* filename = temp.name; subprocess.run(..., shell=True, check=True), first half:
\* the shell opens the redirections (creating or truncating the file of ">")
\* and starts the child.
Run ==
    /\ pc = "run"
    /\ LET filename == temp[1].name
           words == CommandWords(config.orca_plot_path[1], args.infile, filename)
           sh == Shell(words)
       IN /\ invoked' = Append(invoked,
                [mo |-> i, spin |-> chan, argv |-> sh.argv, stdin |-> sh.stdin,
                 stdout |-> sh.stdout, stderr |-> sh.stderr, returncode |-> None])
          /\ disk' = IF sh.stdout = Inherited THEN disk
                     ELSE (sh.stdout :> <<>>) @@ disk
    /\ pc' = "wait"
    /\ UNCHANGED <<args, config, raised, mo_range, idx, chan, progress, temp>>
    /\ UNCHANGED tvars

\* A child is alive from its start until it exits.
Alive(k) == invoked[k].returncode = None

\* The environment: a running child reads its standard input, writes its
\* output to the files its descriptors name, and exits with some status.
ChildExit ==
    /\ \E k \in 1..Len(invoked), status \in {0, 1} :
          /\ Alive(k)
          /\ invoked' = [invoked EXCEPT ![k].returncode = Some(status)]
          /\ LET c == invoked[k]
                 d1 == IF c.stdout = Inherited THEN disk
                       ELSE [disk EXCEPT ![c.stdout] = Append(@, "o")]
             IN disk' = IF c.stderr = Inherited THEN d1
                        ELSE [d1 EXCEPT ![c.stderr] = Append(@, "e")]
    /\ UNCHANGED <<args, config, pc, raised, mo_range, idx, chan, progress, temp>>
    /\ UNCHANGED tvars

\* check=False: the return code is ignored.
NoCheck(returncode) == FALSE

\* check=True: a non-zero return code raises CalledProcessError.
CalledProcessError(returncode) == returncode # 0

\* A child that is started and not waited for.
WaitChildNoBlock ==
    /\ pc = "wait"
    /\ Goto(NextBlock(chan, args.spin))
    /\ UNCHANGED <<args, config, raised, mo_range, idx, progress, temp, disk,
                   invoked>>
    /\ UNCHANGED tvars

\* subprocess.run, second half: it blocks until the child has exited, then
\* raises or returns; on return control goes to the next block or the loop.
WaitChild ==
    /\ pc = "wait"
    /\ ~Alive(Len(invoked))
    /\ IF CalledProcessError(invoked[Len(invoked)].returncode[1])
       THEN /\ pc' = "raised"
            /\ raised' = "CalledProcessError"
            /\ UNCHANGED chan
       ELSE /\ Goto(NextBlock(chan, args.spin))
            /\ UNCHANGED raised
    /\ UNCHANGED <<args, config, mo_range, idx, progress, temp, disk, invoked>>
    /\ UNCHANGED tvars

Next ==
    \/ validate_args
    \/ execute
    \/ ForNext
    \/ ForEnd
    \/ NamedTemporaryFile
    \/ NamedTemporaryFileError
    \/ WriteSpin1
    \/ WriteSpin2
    \/ WriteSpin3
    \/ CloseTemp
    \/ CloseTempError
    \/ Run
    \/ ChildExit
    \/ WaitChild

Spec == Init /\ [][Next]_vars

----------------------------------------------------------------------------
(* SetTheme: the colour theme and its config file, followed on their own.   *)
(* main constructs a SetTheme at its first line and again for every style  *)
(* it reads; Spec above starts past these, with a theme file in place.     *)

\* The variables of the series loop, which the theme code never touches.
rvars == <<args, config, mo_range, idx, chan, progress, temp, disk, invoked>>

\* SetTheme.load_theme_name: the value it returns and the file it leaves.
load_theme_name(file) ==
    IF file # None
    THEN [theme |-> GetItem(JsonLoad(file[1]), "theme"), file |-> file]
    ELSE LET theme_ == PyDict("theme", "dracula")
         IN [theme |-> theme_, file |-> Some(JsonDump(theme_))]

\* SetTheme.__init__, first statement: self.theme_name = self.load_theme_name()
SetThemeLoad ==
    /\ pc = "main"
    /\ LET r == load_theme_name(config_file)
       IN /\ theme' = Some([theme_name |-> r.theme, color_scheme |-> "unset"])
          /\ config_file' = r.file
    /\ pc' = "__init__"
    /\ UNCHANGED raised
    /\ UNCHANGED rvars

\* SetTheme.__init__, second statement:
\* self.color_scheme = ColorSchemeFactory.create_color_scheme(self.theme_name)
SetThemeScheme ==
    /\ pc = "__init__"
    /\ LET err == raise_scheme_error(theme[1].theme_name)
       IN IF err # "none"
          THEN /\ pc' = "raised"
               /\ raised' = err
               /\ UNCHANGED theme
          ELSE /\ pc' = "constructed"
               /\ theme' = Some([theme[1] EXCEPT
                              !.color_scheme = scheme_dict[theme[1].theme_name[2]]])
               /\ UNCHANGED raised
    /\ UNCHANGED config_file
    /\ UNCHANGED rvars

\* main: if args.color != SetTheme().theme_name: SetTheme().set_theme(args.color)
\* set_theme(theme_name) checks the name, switches the colour scheme of the
\* object and writes the config file; the object is a temporary of main.
set_theme ==
    /\ pc = "constructed"
    /\ PyStr(args.color) # theme[1].theme_name
    /\ LET err == raise_scheme_error(PyStr(args.color))
       IN IF err # "none"
          THEN /\ pc' = "raised"
               /\ raised' = err
               /\ UNCHANGED <<theme, config_file>>
          ELSE /\ theme' = Some([theme[1] EXCEPT
                              !.color_scheme = scheme_dict[args.color]])
               /\ config_file' = Some(JsonDump(PyDict("theme", args.color)))
               /\ UNCHANGED <<pc, raised>>
    /\ UNCHANGED rvars

\* main is done with the object (SetTheme().get_..._style): the next
\* SetTheme() starts from the file.
Discard ==
    /\ pc = "constructed"
    /\ pc' = "main"
    /\ theme' = None
    /\ UNCHANGED <<raised, config_file>>
    /\ UNCHANGED rvars

\* moplots is started again, after an exception or a finished run, with some
\* -c; the config file stays.
NewRun ==
    /\ pc \in {"raised", "main"}
    /\ \E color \in Colors : args' = [args EXCEPT !.color = color]
    /\ pc' = "main"
    /\ raised' = "none"
    /\ theme' = None
    /\ UNCHANGED <<config, mo_range, idx, chan, progress, temp, disk, invoked,
                   config_file>>

\* At the start the config file is absent or holds one of the six themes.
InitTheme ==
    /\ args \in [mo0 : {None}, mo1 : {None}, grid : {80}, output : {"BINARY"},
                 infile : {<<"mol.gbw">>}, spin : {"alpha"}, color : Colors]
    /\ config = [orca_plot_path |-> None]
    /\ pc = "main"
    /\ raised = "none"
    /\ mo_range = <<>>
    /\ idx = 0
    /\ chan = "alpha"
    /\ progress = [completed |-> 0, total |-> 0]
    /\ temp = None
    /\ disk = <<>>
    /\ invoked = <<>>
    /\ config_file \in {None} \cup {Some(JsonDump(PyDict("theme", n))) : n \in SchemeNames}
    /\ theme = None

NextTheme ==
    \/ SetThemeLoad
    \/ SetThemeScheme
    \/ set_theme
    \/ Discard
    \/ NewRun

SpecTheme == InitTheme /\ [][NextTheme]_vars

----------------------------------------------------------------------------
(* Vocabulary of the properties *)

\* The run has ended: execute returned, or an exception left main.
Ended == pc \in {"done", "raised"}

\* validate_args let the run through.
Validated == pc \notin {"validate_args", "raised"} \/ (pc = "raised" /\ raised \notin {"ValueError", "FileNotFoundError"})

\* The orbital range [a, b] of the command line, when both bounds are given.
First == args.mo0[1]
Last == args.mo1[1]
ValidRange == args.mo0 # None /\ args.mo1 # None /\ 0 <= First /\ First <= Last

\* Number of RenderJobs of the range for the spin selection.
JobCount == IF args.spin = "both" THEN 2 * (Last - First + 1) ELSE Last - First + 1

\* The k-th RenderJob of the series, as (orbital index, spin channel).
ExpectedJob(k) ==
    IF args.spin = "both"
    THEN <<First + ((k - 1) \div 2), IF k % 2 = 1 THEN "alpha" ELSE "beta">>
    ELSE <<First + (k - 1), args.spin>>

\* RenderJobs attempted so far: those whose block of the loop body was entered.
JobsAttempted ==
    IF idx = 0 THEN 0
    ELSE IF args.spin = "both" THEN 2 * (idx - 1) + (IF chan = "alpha" THEN 1 ELSE 2)
    ELSE idx

\* A job's files are being prepared: from NamedTemporaryFile to the start of the child.
Preparing == pc \in {"create", "write1", "write2", "write3", "close", "run"}

\* The children that are alive.
AliveSet == {k \in 1..Len(invoked) : Alive(k)}

\* Terminated: the last character of the text is a newline.
Terminated(t) == t # <<>> /\ t[Len(t)] = NL

\* The value of a decimal digit character.
DigitVal == [c \in {Digit[d] : d \in 1..10} |-> (CHOOSE d \in 1..10 : Digit[d] = c) - 1]

\* Reading a line character by character: the digits read so far, their
\* value, and whether the line can still be a decimal numeral (no non-digit,
\* no leading zero).
LineStart == [digits |-> 0, val |-> 0, ok |-> TRUE]

ReadChar(cur, c) ==
    IF ~cur.ok \/ c \notin DOMAIN DigitVal \/ (cur.digits > 0 /\ cur.val = 0)
    THEN [cur EXCEPT !.ok = FALSE]
    ELSE [digits |-> cur.digits + 1, val |-> 10 * cur.val + DigitVal[c], ok |-> TRUE]

\* The number a finished line stands for; -1 if it is not a decimal numeral.
LineVal(cur) == IF cur.ok /\ cur.digits > 0 THEN cur.val ELSE -1

\* The text cut into lines at the newlines, each line read as a number
\* (characters after the last newline count as one more line).
RECURSIVE ReadLines(_, _, _, _)
ReadLines(t, n, cur, acc) ==
    IF n > Len(t) THEN (IF cur = LineStart THEN acc ELSE Append(acc, LineVal(cur)))
    ELSE IF t[n] = NL THEN ReadLines(t, n + 1, LineStart, Append(acc, LineVal(cur)))
    ELSE ReadLines(t, n + 1, ReadChar(cur, t[n]), acc)

LineVals(t) == ReadLines(t, 1, LineStart, <<>>)

\* The protocol value of an output format, and the first line of a spin block.
FormatValue(output) ==
    CASE output = "BINARY" -> 5 [] output = "ASCII" -> 6 [] output = "CUBE" -> 7

SpinLine(spin) == IF spin = "alpha" THEN 0 ELSE 1

\* The line sequence of the script of a job.
ScriptLines(mo, grid, spin, output) ==
    <<4, grid, 2, mo, 3, SpinLine(spin), 1, 1, 5, FormatValue(output), 10, 11>>

IsScript(t, mo, grid, spin, output) ==
    /\ Terminated(t)
    /\ LineVals(t) = ScriptLines(mo, grid, spin, output)

----------------------------------------------------------------------------
(* Properties *)

\* C1: if the renderer invocation of the k-th RenderJob exits with a non-zero
\* status, no RenderJob after the k-th is invoked (the beta job of the same
\* index included), the run is left by CalledProcessError and never returns
\* normally, after exactly k invocation attempts.
C1_StopOnFailure ==
    \A k \in 1..Len(invoked) :
        (invoked[k].returncode # None /\ invoked[k].returncode[1] # 0) =>
            /\ Len(invoked) = k
            /\ pc \in {"wait", "raised"}
            /\ pc = "raised" => raised = "CalledProcessError"

\* C1 witness: under "both" the alpha job of the second index, the third job, failed
\* and the run raised after three attempts.
C1_Witness ==
    /\ pc = "raised" /\ raised = "CalledProcessError"
    /\ args.spin = "both"
    /\ Len(invoked) = 3
    /\ invoked[3].spin = "alpha"
    /\ invoked[3].returncode = Some(1)

\* C2: for a valid range [a, b], a run in which every renderer invocation exits
\* with status 0 (and no file operation fails) executes exactly 2*(b-a+1)
\* RenderJobs under "both" and b-a+1 under "alpha" or "beta", and returns
\* normally.
C2_JobCount ==
    (Validated /\ ValidRange) =>
        /\ pc = "done" =>
              /\ Len(invoked) = JobCount
              /\ \A k \in 1..Len(invoked) : invoked[k].returncode = Some(0)
        /\ (pc = "raised" /\ raised = "CalledProcessError") =>
              \E k \in 1..Len(invoked) :
                  invoked[k].returncode # None /\ invoked[k].returncode[1] # 0
        /\ Len(invoked) <= JobCount

\* C2 witness: a single-index range under "both" ended normally with two jobs.
C2_Witness ==
    /\ pc = "done"
    /\ ValidRange /\ First = Last
    /\ args.spin = "both"
    /\ Len(invoked) = 2

\* C3: the RenderJobs invoked are, in order, the jobs of the series: ascending
\* by orbital index, strictly so for jobs of the same spin, and under "both"
\* the alpha job of an index comes right before the beta job of that index and
\* has terminated (with status 0) when the beta job is invoked.
C3_Order ==
    /\ \A k \in 1..Len(invoked) :
          <<invoked[k].mo, invoked[k].spin>> = ExpectedJob(k)
    /\ \A j, k \in 1..Len(invoked) :
          j < k =>
              \/ invoked[j].mo < invoked[k].mo
              \/ /\ invoked[j].mo = invoked[k].mo
                 /\ k = j + 1
                 /\ invoked[j].spin = "alpha" /\ invoked[k].spin = "beta"
                 /\ invoked[j].returncode = Some(0)

\* C3 witness: range [0,1] under "both" ran (0,alpha),(0,beta),(1,alpha),(1,beta).
C3_Witness ==
    /\ pc = "done"
    /\ args.spin = "both"
    /\ [k \in 1..Len(invoked) |-> <<invoked[k].mo, invoked[k].spin>>]
         = <<(<<0, "alpha">>), (<<0, "beta">>), (<<1, "alpha">>), (<<1, "beta">>)>>

\* C4 as stated: at every point the progress counter equals the number of
\* RenderJobs attempted so far, and on a normal return it equals the number
\* of RenderJobs of the run.
C4_Original ==
    /\ progress.completed = JobsAttempted
    /\ pc = "done" => progress.completed = Len(invoked)

\* C4 amended: the progress counter never decreases and advances by exactly one
\* per orbital index, when the iteration of that index begins: at every point
\* it equals the number of iterations begun. That is the number of RenderJobs
\* attempted under "alpha" or "beta"; under "both" the jobs attempted are twice
\* the counter, less one while the alpha block runs. On a normal return the
\* counter equals the task total, the number of orbital indices.
C4_ProgressPerIndex ==
    /\ [](/\ progress.completed = idx
          /\ args.spin # "both" => progress.completed = JobsAttempted
          /\ (args.spin = "both" /\ idx > 0) =>
                JobsAttempted = 2 * progress.completed - (IF chan = "alpha" THEN 1 ELSE 0)
          /\ Len(invoked) <= JobsAttempted /\ JobsAttempted <= Len(invoked) + 1
          /\ pc = "done" => /\ progress.completed = progress.total
                            /\ progress.total = Len(mo_range))
    /\ [][/\ progress'.completed >= progress.completed
          /\ progress'.completed <= progress.completed + 1
          /\ (idx' # idx) <=> (progress'.completed = progress.completed + 1)]_vars

\* C4 witness: under "both" the counter shows 2 while three jobs have been attempted.
C4_Witness ==
    /\ args.spin = "both"
    /\ progress.completed = 2
    /\ Len(invoked) = 3
    /\ pc = "wait"

\* C5: the script file of every RenderJob holds exactly the twelve
\* newline-terminated lines 4, g, 2, i, 3, the spin block (0,1,1 for alpha;
\* 1,1,1 for beta), 5, the protocol value of the format (BINARY 5, ASCII 6,
\* CUBE 7), 10, 11, whatever the other inputs, when its renderer is invoked
\* and unchanged from then on; e.g. index 1, alpha, grid 80, BINARY gives
\* "4\n80\n2\n1\n3\n0\n1\n1\n5\n5\n10\n11\n".
C5_ScriptText ==
    /\ [][Len(invoked') > Len(invoked) =>
            LET job == invoked'[Len(invoked')]
                script == disk'[job.stdin]
            IN /\ job.mo = i /\ job.spin = chan
               /\ IsScript(script, job.mo, args.grid, job.spin, args.output)
               /\ (/\ job.mo = 1 /\ job.spin = "alpha"
                   /\ args.grid = 80 /\ args.output = "BINARY") =>
                     script = <<"4", NL, "8", "0", NL, "2", NL, "1", NL, "3", NL,
                                "0", NL, "1", NL, "1", NL, "5", NL, "5", NL,
                                "1", "0", NL, "1", "1", NL>>]_vars
    /\ [][\A k \in 1..Len(invoked) :
            disk'[invoked[k].stdin] = disk[invoked[k].stdin]]_vars
    /\ [](pc = "done" => \A k \in 1..Len(invoked) :
            IsScript(disk[invoked[k].stdin], invoked[k].mo, args.grid,
                     invoked[k].spin, args.output))

\* C5 witness: a beta job with format CUBE has run; its script has 7 on the format line.
C5_Witness ==
    /\ args.output = "CUBE"
    /\ \E k \in 1..Len(invoked) :
          /\ invoked[k].spin = "beta"
          /\ invoked[k].returncode # None
          /\ LineVals(disk[invoked[k].stdin])[10] = 7
          /\ LineVals(disk[invoked[k].stdin])[6] = 1

\* C6 as stated: every renderer invocation has the argument vector
\* <renderer_path> <input file path as supplied> -i, standard input from the
\* job's script file, and standard output and standard error both to the
\* job's log file.
C6_Invocation ==
    \A k \in 1..Len(invoked) :
        /\ invoked[k].argv = <<config.orca_plot_path[1], PathStr(args.infile), "-i">>
        /\ invoked[k].stdin \in TmpNames
        /\ invoked[k].stdout = invoked[k].stdin \o ".log"
        /\ invoked[k].stderr = invoked[k].stdout

\* C7 as stated: a missing bound, a negative bound, first > last or a missing
\* renderer is rejected by validation: the run never gets past it, no file is
\* created and no renderer is invoked; so past validation 0 <= first <= last.
PreconditionViolated ==
    \/ args.mo0 = None \/ args.mo1 = None
    \/ First < 0 \/ Last < 0
    \/ First > Last
    \/ config.orca_plot_path = None

C7_Rejected ==
    /\ PreconditionViolated =>
          /\ pc \in {"validate_args", "raised"}
          /\ pc = "raised" => raised \in {"ValueError", "FileNotFoundError"}
          /\ DOMAIN disk = {} /\ invoked = <<>>
    /\ pc \notin {"validate_args", "raised"} => ValidRange

\* C8: no file is ever deleted; every RenderJob invoked has its script file
\* and its log file on disk, the log named by the script's name with ".log"
\* appended; no two RenderJobs share a script file; and the run's files are
\* exactly these (and the script of a job whose preparation is under way or
\* failed).
ScriptFiles == {invoked[k].stdin : k \in 1..Len(invoked)}
LogFiles == {invoked[k].stdout : k \in 1..Len(invoked)}

C8_FilesKept ==
    /\ [][DOMAIN disk \subseteq DOMAIN disk']_vars
    /\ [](/\ \A k \in 1..Len(invoked) :
                /\ invoked[k].stdin \in TmpNames
                /\ invoked[k].stdin \in DOMAIN disk
                /\ invoked[k].stdout = invoked[k].stdin \o ".log"
                /\ invoked[k].stdout \in DOMAIN disk
          /\ \A j, k \in 1..Len(invoked) :
                j # k => invoked[j].stdin # invoked[k].stdin
          /\ Cardinality(ScriptFiles) = Len(invoked)
          /\ Cardinality(LogFiles) = Len(invoked)
          /\ ScriptFiles \cap LogFiles = {}
          /\ DOMAIN disk = ScriptFiles \cup LogFiles
                             \cup (IF temp = None THEN {} ELSE {temp[1].name}))

\* C8 witness: a run ended by a failing renderer with two jobs invoked and
\* four files on disk.
C8_Witness ==
    /\ pc = "raised" /\ raised = "CalledProcessError"
    /\ Len(invoked) = 2
    /\ Cardinality(DOMAIN disk) = 4

\* C9: at most one renderer child is alive, and while a job's script file is
\* created and written (and at the loop header) no child is alive: every
\* child has terminated before the next job's preparation starts.
C9_OneAtATime ==
    /\ Cardinality(AliveSet) <= 1
    /\ AliveSet \subseteq {Len(invoked)}
    /\ (Preparing \/ pc \in {"for", "done"}) => AliveSet = {}

\* C9 witness: the script of a second job is being written after the first child exited.
C9_Witness ==
    /\ pc = "write2"
    /\ Len(invoked) = 1
    /\ invoked[1].returncode = Some(0)

\* C10: while a child is alive, its script file holds the complete script
\* (all three parts) and is not open for writing; a child is started only in
\* such a state.
C10_ScriptClosed ==
    /\ [](\A k \in AliveSet :
            /\ IsScript(disk[invoked[k].stdin], invoked[k].mo, args.grid,
                        invoked[k].spin, args.output)
            /\ temp # None
            /\ temp[1].name = invoked[k].stdin
            /\ temp[1].closed /\ temp[1].buf = <<>>)
    /\ [][Len(invoked') > Len(invoked) =>
            /\ temp # None /\ temp[1].closed /\ temp[1].buf = <<>>
            /\ Terminated(disk[temp[1].name])
            /\ Len(LineVals(disk[temp[1].name])) = 12]_vars

\* C10 witness: a child is alive.
C10_Witness ==
    /\ AliveSet # {}
    /\ pc = "wait"
    /\ temp[1].closed

\* C11: if creating the script file of a RenderJob fails (no file appears) or
\* writing it fails (the file does not receive the whole script), the step
\* that fails ends the run with the error: no child is started for that job,
\* the file handle, if one was opened, is closed, and nothing is invoked
\* afterwards.
C11_FsFailureAborts ==
    /\ [][(\/ pc = "create" /\ pc' # "create" /\ DOMAIN disk' = DOMAIN disk
           \/ /\ pc = "close" /\ pc' # "close"
              /\ disk'[temp[1].name] # disk[temp[1].name] \o temp[1].buf)
          => /\ pc' = "raised" /\ raised' = "OSError"
             /\ invoked' = invoked
             /\ temp' = None \/ temp'[1].closed]_vars
    /\ [](raised = "OSError" =>
            /\ pc = "raised"
            /\ AliveSet = {}
            /\ Len(invoked) = JobsAttempted - 1
            /\ temp = None \/ (temp[1].closed /\ temp[1].buf = <<>>))
    /\ [][pc = "raised" => pc' = "raised" /\ invoked' = invoked]_vars

\* C11 witness: the write of the second job's script failed part-way; the run
\* ended with one job invoked, the handle closed and no child for the second.
C11_Witness ==
    /\ pc = "raised" /\ raised = "OSError"
    /\ Len(invoked) = 1
    /\ temp[1].closed
    /\ temp[1].name \notin ScriptFiles
    /\ disk[temp[1].name] # <<>>
    /\ ~Terminated(disk[temp[1].name])

\* C12 as stated: constructing SetTheme always succeeds, with theme_name a
\* string that is one of the six scheme names and the colour scheme of that
\* name, whether the config file exists (with a valid theme) or not; if it does
\* not, the construction creates it holding theme "dracula" and theme_name is
\* "dracula"; and after set_theme(n) for a valid n the file holds n, which
\* the next construction loads.
C12_Construct ==
    /\ [](theme # None =>
            /\ IsStr(theme[1].theme_name)
            /\ theme[1].theme_name[2] \in SchemeNames)
    /\ [][pc = "__init__" /\ pc' # "__init__" =>
            /\ pc' = "constructed"
            /\ theme'[1].color_scheme = scheme_dict[theme[1].theme_name[2]]]_vars
    /\ [][(pc = "main" /\ pc' = "__init__" /\ config_file = None) =>
            /\ config_file' = Some(JsonDump(PyDict("theme", "dracula")))
            /\ theme'[1].theme_name = PyStr("dracula")]_vars
    /\ [][(pc = "main" /\ pc' = "__init__" /\ config_file # None) =>
            /\ config_file' = config_file
            /\ theme'[1].theme_name = PyStr(config_file[1][4])]_vars
    /\ [][(pc = "constructed" /\ config_file' # config_file) =>
            /\ args.color \in SchemeNames
            /\ theme'[1].color_scheme = scheme_dict[args.color]
            /\ config_file' = Some(<<"{", "theme", ":", args.color, "}">>)]_vars

====
